---- MODULE Spec2Model ----
(***************************************************************************)
(* Tenant lifecycle orchestrator of mystra-erp-next:                       *)
(*   scripts/admin_api.py    HTTP front end, create/delete/list            *)
(*   scripts/tenant_utils.py bench provisioning, API keys, frontend        *)
(*                           containers, port resolution, CLI entry point  *)
(* Strings the code inspects character by character (site names, service   *)
(* names) are sequences of one-character strings.                          *)
(***************************************************************************)
EXTENDS Integers, Sequences, FiniteSets, TLC

\* ------------------------------------------------------- program constants
\* admin_api.py:123  port < 1 or port > 65535
MinPort == 1
MaxPort == 65535
\* tenant_utils.py:363  _parse_port(os.environ.get("HTTP_PUBLISH_PORT", ""), 8080)
DefaultHttpPort == 8080
\* admin_api.py:167  concise[:300] if len(concise) > 300 else concise
ErrorCap == 300

\* ------------------------------------------------------------ identifiers
Lowers == {"a", "b"}
Uppers == {"A"}
Digits == {"0"}
Alnum == Lowers \cup Uppers \cup Digits

\* Site names used by requests: three accepted names (two of which differ only
\* in a character the service-name derivation rewrites) and a rejected one.
SiteAB == <<"a", "b">>
SiteADotB == <<"a", ".", "b">>
SiteADashB == <<"a", "-", "b">>
SiteBad == <<"b", "_">>
Idents == {SiteAB, SiteADotB, SiteADashB, SiteBad}
\* The names sent through the HTTP API and the command line.
ApiSites == {SiteAB, SiteADotB, SiteBad}

\* re.match(r"^[a-zA-Z0-9][a-zA-Z0-9.-]*[a-zA-Z0-9]$", s) without the "$"
\* end-of-line allowance: the whole of s is first, interior*, last.
FullMatch(s) ==
    /\ Len(s) >= 2
    /\ s[1] \in Alnum
    /\ s[Len(s)] \in Alnum
    /\ \A i \in 2..(Len(s) - 1) : s[i] \in Alnum \cup {".", "-"}

\* Python's "$" also matches just before one trailing newline.
ValidName(s) ==
    \/ FullMatch(s)
    \/ /\ Len(s) >= 1
       /\ s[Len(s)] = "\n"
       /\ FullMatch(SubSeq(s, 1, Len(s) - 1))

\* str.lower() on one character
LowerChar(c) == IF c = "A" THEN "a" ELSE c

\* re.sub(r"[^a-z0-9-]", "-", c)
SubChar(c) == IF c \in Lowers \cup Digits \cup {"-"} THEN c ELSE "-"

RECURSIVE StripLeft(_)
StripLeft(s) ==
    IF s # <<>> /\ Head(s) = "-" THEN StripLeft(Tail(s)) ELSE s

RECURSIVE StripRight(_)
StripRight(s) ==
    IF s # <<>> /\ s[Len(s)] = "-" THEN StripRight(SubSeq(s, 1, Len(s) - 1)) ELSE s

\* _sanitize_service_name
SanitizeServiceName(site) ==
    LET sub == [i \in 1..Len(site) |-> SubChar(LowerChar(site[i]))]
        stripped == StripRight(StripLeft(sub))
    IN  IF stripped = <<>> THEN <<"t", "e", "n", "a", "n", "t">> ELSE stripped

\* f"frontend-tenant-{_sanitize_service_name(site_name)}"
ServiceName(site) == <<"frontend-tenant-">> \o SanitizeServiceName(site)

SvcNames == {ServiceName(s) : s \in Idents}

\* ------------------------------------------------------------ configuration
\* ADMIN_API_KEY; main() exits when it is empty, so a serving process has one.
ADMIN_API_KEY == "k1"
\* DB_PASSWORD; main() exits when it is empty.
DB_PASSWORD == "dbpw"
\* docker SDK import succeeded (tenant_utils.py:17-20).
DockerSdk == TRUE
\* from tenant_utils import ... succeeded (admin_api.py:25-36).
TenantUtils == TRUE

\* --------------------------------------------------------------- requests
NoAuthz == [scheme |-> "", cred |-> ""]
Bearer(k) == [scheme |-> "Bearer", cred |-> k]
Basic(k) == [scheme |-> "Basic", cred |-> k]

\* JSON values a body can carry as "port": absent/null, an integer, a number
\* with a fractional part (whole + 0.5), or a string that is no numeral.
RawNone == [t |-> "none", n |-> 0]
RawInt(n) == [t |-> "int", n |-> n]
RawFloat(n) == [t |-> "float", n |-> n]
RawText == [t |-> "text", n |-> 0]
PortRaws == {RawNone, RawInt(0), RawInt(8080), RawInt(8081), RawInt(MaxPort + 1),
             RawFloat(8080), RawText}

\* An optional integer: <<>> is Python's None, <<n>> the integer n.
NoPort == <<>>
Some(n) == <<n>>

\* do_POST lines 253-258: int(port), None on TypeError/ValueError.
\* int() of a float truncates toward zero; int() of a non-numeral raises ValueError.
IntOfPort(raw) ==
    CASE raw.t = "none" -> NoPort
      [] raw.t = "int" -> Some(raw.n)
      [] raw.t = "float" -> Some(raw.n)
      [] OTHER -> NoPort

BaseReq ==
    [method |-> "GET", path |-> "/health", xkey |-> ADMIN_API_KEY, authz |-> NoAuthz,
     body |-> "obj", site |-> SiteAB, pw |-> TRUE, port |-> RawNone, fe |-> FALSE,
     no_backup |-> TRUE, rm_fe |-> TRUE]
NoReq == [BaseReq EXCEPT !.method = "", !.path = "", !.xkey = "", !.body = "none",
                         !.site = <<>>, !.pw = FALSE]

\* Header combinations: (X-Admin-API-Key, Authorization).
HeaderCases ==
    {<<"", NoAuthz>>, <<"k2", NoAuthz>>, <<ADMIN_API_KEY, NoAuthz>>,
     <<"", Bearer(ADMIN_API_KEY)>>, <<"", Bearer("k2")>>, <<"k2", Bearer(ADMIN_API_KEY)>>,
     <<ADMIN_API_KEY, Bearer("k2")>>, <<"", Basic(ADMIN_API_KEY)>>}

GetRequests ==
    {[BaseReq EXCEPT !.path = pa] : pa \in {"/", "/health", "/admin/health", "/other"}}
    \cup {[BaseReq EXCEPT !.path = "/admin/tenant", !.xkey = h[1], !.authz = h[2]] :
            h \in HeaderCases}

PostRequests ==
    {[BaseReq EXCEPT !.method = "POST", !.path = "/admin/tenant", !.xkey = h[1], !.authz = h[2]] :
        h \in HeaderCases}
    \cup {[BaseReq EXCEPT !.method = "POST", !.path = "/admin/tenant", !.body = b] :
            b \in {"none", "bad", "empty"}}
    \cup {[BaseReq EXCEPT !.method = "POST", !.path = "/admin/tenant", !.site = s, !.pw = w] :
            s \in {<<>>, SiteAB}, w \in BOOLEAN}
    \cup {[BaseReq EXCEPT !.method = "POST", !.path = "/admin/tenant", !.site = s,
                          !.port = r, !.fe = f] :
            s \in ApiSites, r \in PortRaws, f \in BOOLEAN}
    \cup {[BaseReq EXCEPT !.method = "POST", !.path = "/other"]}

DeleteRequests ==
    {[BaseReq EXCEPT !.method = "DELETE", !.path = "/admin/tenant/{id}", !.xkey = h[1],
                     !.authz = h[2]] : h \in HeaderCases}
    \cup {[BaseReq EXCEPT !.method = "DELETE", !.path = "/admin/tenant/{id}", !.site = s,
                          !.rm_fe = f] : s \in ApiSites, f \in BOOLEAN}
    \cup {[BaseReq EXCEPT !.method = "DELETE", !.path = "/admin/tenant/{id}", !.no_backup = FALSE]}
    \cup {[BaseReq EXCEPT !.method = "DELETE", !.path = pa] : pa \in {"/admin/tenant/", "/other"}}

Requests == GetRequests \cup PostRequests \cup DeleteRequests

\* require_auth taking the credential of any Authorization scheme.
RequireAuthAnyScheme(secret, xkey, authz) ==
    LET key == IF xkey # "" THEN xkey ELSE authz.cred
    IN  IF secret = "" THEN FALSE ELSE key = secret

\* require_auth letting a bearer token take precedence over the key header.
RequireAuthBearerFirst(secret, xkey, authz) ==
    LET key == IF authz.scheme = "Bearer" /\ authz.cred # "" THEN authz.cred ELSE xkey
    IN  IF secret = "" THEN FALSE ELSE key = secret

\* require_auth
RequireAuth(secret, xkey, authz) ==
    LET key == IF authz.scheme = "Bearer"
               THEN (IF xkey # "" THEN xkey ELSE authz.cred)
               ELSE xkey
    IN  IF secret = "" THEN FALSE ELSE key = secret

\* --------------------------------------------------------- port resolution
\* Environment values read as port numbers: unset/blank, a numeral, or text
\* that int() rejects.
EnvUnset == [t |-> "unset", n |-> 0]
EnvNum(n) == [t |-> "num", n |-> n]
EnvBad == [t |-> "bad", n |-> 0]

\* The deployment's environment (compose file values).
Config ==
    [HTTP_PUBLISH_PORT |-> EnvUnset,
     FRAPPE_SITE_NAME_HEADER |-> SiteAB,
     TENANT2_SITE_NAME |-> SiteADotB,
     TENANT2_HTTP_PORT |-> EnvNum(8081),
     TENANT3_SITE_NAME |-> <<>>,
     TENANT3_HTTP_PORT |-> EnvUnset,
     TENANT_PORTS |-> << [colon |-> TRUE, site |-> SiteADashB, val |-> EnvNum(8081)] >>]

\* resolve_tenant_port._parse_port
ParsePort(val, default) ==
    IF val.t = "num" THEN val.n ELSE default

RECURSIVE ScanTenantPorts(_, _, _)
\* the loop over TENANT_PORTS.split(",")
ScanTenantPorts(pairs, site, default) ==
    IF pairs = <<>> THEN default
    ELSE LET pair == Head(pairs)
             port == ParsePort(pair.val, default)
         IN  IF pair.colon /\ pair.site = site /\ port # 0
             THEN port
             ELSE ScanTenantPorts(Tail(pairs), site, default)

\* resolve_tenant_port asking the third-tenant binding before the second.
ResolveTenantPortThirdFirst(cfg, site) ==
    LET default_port == ParsePort(cfg.HTTP_PUBLISH_PORT, DefaultHttpPort)
    IN  IF site = cfg.FRAPPE_SITE_NAME_HEADER THEN default_port
        ELSE IF site = cfg.TENANT3_SITE_NAME THEN ParsePort(cfg.TENANT3_HTTP_PORT, 8082)
        ELSE IF site = cfg.TENANT2_SITE_NAME THEN ParsePort(cfg.TENANT2_HTTP_PORT, 8081)
        ELSE ScanTenantPorts(cfg.TENANT_PORTS, site, default_port)

\* resolve_tenant_port
ResolveTenantPort(cfg, site) ==
    LET default_port == ParsePort(cfg.HTTP_PUBLISH_PORT, DefaultHttpPort)
    IN  IF site = cfg.FRAPPE_SITE_NAME_HEADER THEN default_port
        ELSE IF site = cfg.TENANT2_SITE_NAME THEN ParsePort(cfg.TENANT2_HTTP_PORT, 8081)
        ELSE IF site = cfg.TENANT3_SITE_NAME THEN ParsePort(cfg.TENANT3_HTTP_PORT, 8082)
        ELSE ScanTenantPorts(cfg.TENANT_PORTS, site, default_port)

\* ------------------------------------------------------------------- state
Procs == {1, 2}
\* The HTTPServer of main() is single-threaded: one request at a time.
Server == 1

VARIABLES
    sites,       \* bench: site name -> "none" | "created" | "installed"
    apiKeys,     \* site name -> times generate_keys ran on the present site
    tmp,         \* per caller: content of its /tmp/api_keys_<uuid>.json
    containers,  \* runtime: service name -> [status, port, id, site]
    pc,          \* per caller: position in the handler
    req,         \* per caller: the HTTP request not yet dispatched
    loc,         \* per caller: arguments and locals of the running operation
    calls,       \* per caller: external calls made for the current request
    resp,        \* per caller: the response / result
    reported,    \* history: per site, the ports successful creates reported
    fn           \* a function called on its own: its arguments and results

vars == <<sites, apiKeys, tmp, containers, pc, req, loc, calls, resp, reported, fn>>

\* status: "absent" | "running" | "exited"; port: the published host port;
\* id: the container id; site: its FRAPPE_SITE_NAME_HEADER.
NoContainer == [status |-> "absent", port |-> 0, id |-> 0, site |-> <<>>]

\* port_arg is the port argument as the caller passed it; port the one in use.
NoLoc ==
    [op |-> "", via |-> "", site |-> <<>>, port_arg |-> NoPort, port |-> NoPort,
     fe |-> FALSE, rm_fe |-> FALSE,
     rc |-> 0, api_key |-> "", api_secret |-> "", backend |-> "", removed |-> FALSE]

\* No function is called on its own.
NoFn == [name |-> ""]

\* History of one site: the port of its first successful create (first) and of
\* its first successful create without a port argument (resolved).
NoReport == [first |-> NoPort, resolved |-> NoPort]

NoResp ==
    [status |-> 0, ok |-> FALSE, error |-> "", detail |-> "", site |-> <<>>, port |-> NoPort,
     fe_created |-> FALSE, creds |-> FALSE, api_key |-> "", api_secret |-> "",
     token |-> <<>>, removed |-> FALSE, tenants |-> {}, cid |-> 0, errlen |-> 0]

Init ==
    /\ sites = [s \in Idents |-> "none"]
    /\ apiKeys = [s \in Idents |-> 0]
    /\ tmp = [p \in Procs |-> "absent"]
    /\ containers = [c \in SvcNames |-> NoContainer]
    /\ pc = [p \in Procs |-> "idle"]
    /\ req = [p \in Procs |-> NoReq]
    /\ loc = [p \in Procs |-> NoLoc]
    /\ calls = [p \in Procs |-> <<>>]
    /\ resp = [p \in Procs |-> NoResp]
    /\ reported = [s \in Idents |-> NoReport]
    /\ fn = NoFn

EnvVars == <<sites, apiKeys, tmp, containers>>

\* json_response(handler, status, data) for an error body {"error": e}
ErrorResp(status, e) == [NoResp EXCEPT !.status = status, !.error = e]

\* The handler answers and returns.
Respond(p, r) ==
    /\ pc' = [pc EXCEPT ![p] = "done"]
    /\ resp' = [resp EXCEPT ![p] = r]

\* The handler goes on to an operation with arguments l, starting at step at.
Dispatch(p, l, at) ==
    /\ pc' = [pc EXCEPT ![p] = at]
    /\ loc' = [loc EXCEPT ![p] = l]
    /\ req' = [req EXCEPT ![p] = NoReq]
    /\ UNCHANGED resp

\* A request arrives at the server.
Receive(p) ==
    /\ pc[p] = "idle"
    /\ \E r \in Requests : req' = [req EXCEPT ![p] = r]
    /\ pc' = [pc EXCEPT ![p] = "recv"]
    /\ UNCHANGED <<EnvVars, loc, calls, resp, reported, fn>>

\* AdminAPIHandler.do_GET
DoGET(p) ==
    /\ pc[p] = "recv"
    /\ req[p].method = "GET"
    /\ LET r == req[p] IN
       IF r.path \in {"/", "/health", "/admin/health"}
       THEN Respond(p, [NoResp EXCEPT !.status = 200, !.detail = "status ok"])
            /\ UNCHANGED <<loc, req>>
       ELSE IF r.path = "/admin/tenant"
       THEN IF ~RequireAuth(ADMIN_API_KEY, r.xkey, r.authz)
            THEN Respond(p, ErrorResp(401, "Unauthorized")) /\ UNCHANGED <<loc, req>>
            ELSE Dispatch(p, [NoLoc EXCEPT !.op = "list", !.via = "api"], "list")
       ELSE Respond(p, ErrorResp(404, "Not found")) /\ UNCHANGED <<loc, req>>
    /\ UNCHANGED <<EnvVars, calls, reported, fn>>

\* Entries of the sites directory besides the sites themselves.
OtherEntries ==
    {[name |-> <<"assets">>, dir |-> TRUE, config |-> FALSE],
     [name |-> <<"apps.txt">>, dir |-> FALSE, config |-> FALSE],
     [name |-> <<".", "c">>, dir |-> TRUE, config |-> TRUE],
     [name |-> <<"logs">>, dir |-> TRUE, config |-> FALSE]}

\* os.listdir(sites_dir): bench keeps one directory with site_config.json per site.
SitesDir ==
    OtherEntries \cup
    {[name |-> s, dir |-> TRUE, config |-> TRUE] : s \in {x \in Idents : sites[x] # "none"}}

\* list_tenants keeping only the sites whose installation completed.
IsTenantEntryInstalledOnly(e) ==
    /\ Head(e.name) # "."
    /\ e.name \notin {<<"assets">>, <<"common_site_config.json">>, <<"apps.txt">>,
                      <<"currentsite.txt">>}
    /\ e.dir
    /\ e.config
    /\ e.name \in Idents => sites[e.name] = "installed"

\* The entries list_tenants keeps.
IsTenantEntry(e) ==
    /\ Head(e.name) # "."
    /\ e.name \notin {<<"assets">>, <<"common_site_config.json">>, <<"apps.txt">>,
                      <<"currentsite.txt">>}
    /\ e.dir
    /\ e.config

\* list_tenants
ListTenants(p) ==
    /\ pc[p] = "list"
    /\ \E oserror \in BOOLEAN :
         /\ calls' = [calls EXCEPT ![p] =
                         Append(@, [c |-> "listdir", r |-> IF oserror THEN "fail" ELSE "ok"])]
         /\ IF oserror
            THEN Respond(p, ErrorResp(500, "OSError"))
            ELSE Respond(p, [NoResp EXCEPT !.status = 200, !.ok = TRUE,
                                        !.tenants = {e.name : e \in {x \in SitesDir : IsTenantEntry(x)}}])
    /\ UNCHANGED <<EnvVars, loc, req, reported, fn>>

RECURSIVE StripWsLeft(_)
StripWsLeft(s) ==
    IF s # <<>> /\ Head(s) \in {" ", "\n"} THEN StripWsLeft(Tail(s)) ELSE s

RECURSIVE StripWsRight(_)
StripWsRight(s) ==
    IF s # <<>> /\ s[Len(s)] \in {" ", "\n"}
    THEN StripWsRight(SubSeq(s, 1, Len(s) - 1)) ELSE s

\* str.strip() as the handlers apply it to the site name (lines 243, 274)
StripWs(s) == StripWsRight(StripWsLeft(s))

\* admin_api.create_tenant, lines 117-127: the checks made before any step.
\* "" when they pass, else the error returned.
CreateChecks(site_name, port, create_frontend) ==
    IF ~ValidName(site_name) THEN "Invalid site name"
    ELSE IF DB_PASSWORD = "" THEN "DB_PASSWORD not configured"
    ELSE IF create_frontend /\ (port = NoPort \/ port[1] < MinPort \/ port[1] > MaxPort)
         THEN "port required and must be 1-65535 when create_frontend is true"
    ELSE IF create_frontend /\ ~TenantUtils
         THEN "create_frontend requires tenant_utils (Python path)"
    ELSE ""

\* AdminAPIHandler.do_POST with admin_api.create_tenant up to its first step
DoPOST(p) ==
    /\ pc[p] = "recv"
    /\ req[p].method = "POST"
    /\ LET r == req[p]
           site_name == StripWs(r.site)
           port == IntOfPort(r.port)
           err == CreateChecks(site_name, port, r.fe)
       IN
       IF r.path # "/admin/tenant"
       THEN Respond(p, ErrorResp(404, "Not found")) /\ UNCHANGED <<loc, req>>
       ELSE IF ~RequireAuth(ADMIN_API_KEY, r.xkey, r.authz)
       THEN Respond(p, ErrorResp(401, "Unauthorized")) /\ UNCHANGED <<loc, req>>
       ELSE IF r.body # "obj"
       THEN Respond(p, ErrorResp(400, "JSON body required")) /\ UNCHANGED <<loc, req>>
       ELSE IF site_name = <<>> \/ ~r.pw
       THEN Respond(p, ErrorResp(400, "site_name and admin_password required"))
            /\ UNCHANGED <<loc, req>>
       ELSE IF DB_PASSWORD = ""
       THEN Respond(p, ErrorResp(500, "DB_PASSWORD not configured")) /\ UNCHANGED <<loc, req>>
       ELSE IF err # ""
       THEN Respond(p, ErrorResp(400, err)) /\ UNCHANGED <<loc, req>>
       ELSE Dispatch(p, [NoLoc EXCEPT !.op = "create", !.via = "api", !.site = site_name,
                                      !.port_arg = port, !.port = port, !.fe = r.fe],
                     "new_site")
    /\ UNCHANGED <<EnvVars, calls, reported, fn>>

\* admin_api.delete_tenant, lines 186-187.
DeleteChecks(site_name) ==
    IF ~ValidName(site_name) THEN "Invalid site name" ELSE ""

\* AdminAPIHandler.do_DELETE with admin_api.delete_tenant up to its first step
DoDELETE(p) ==
    /\ pc[p] = "recv"
    /\ req[p].method = "DELETE"
    /\ LET r == req[p]
           site_name == StripWs(r.site)
           err == DeleteChecks(site_name)
       IN
       IF r.path # "/admin/tenant/{id}"
       THEN Respond(p, ErrorResp(404, "Not found")) /\ UNCHANGED <<loc, req>>
       ELSE IF ~RequireAuth(ADMIN_API_KEY, r.xkey, r.authz)
       THEN Respond(p, ErrorResp(401, "Unauthorized")) /\ UNCHANGED <<loc, req>>
       ELSE IF site_name = <<>>
       THEN Respond(p, ErrorResp(400, "site_name required")) /\ UNCHANGED <<loc, req>>
       ELSE IF DB_PASSWORD = ""
       THEN Respond(p, ErrorResp(500, "DB_PASSWORD not configured")) /\ UNCHANGED <<loc, req>>
       ELSE IF err # ""
       THEN Respond(p, ErrorResp(400, err)) /\ UNCHANGED <<loc, req>>
       ELSE Dispatch(p, [NoLoc EXCEPT !.op = "delete", !.via = "api", !.site = site_name,
                                      !.rm_fe = r.rm_fe],
                     IF r.rm_fe THEN "rm_frontend" ELSE "drop_site")
    /\ UNCHANGED <<EnvVars, calls, reported, fn>>

\* tenant_utils.py __main__: python tenant_utils.py <site_name> <admin_password> [db_password]
CliMain(p) ==
    /\ pc[p] = "idle"
    /\ \E site \in ApiSites, argc \in {2, 3}, dbpw \in {"", DB_PASSWORD} :
         IF argc < 3
         THEN Respond(p, [NoResp EXCEPT !.status = 1, !.error = "Usage"])
              /\ loc' = [loc EXCEPT ![p] = [NoLoc EXCEPT !.via = "cli"]]
         ELSE IF dbpw = ""
         THEN Respond(p, [NoResp EXCEPT !.status = 1, !.error = "DB_PASSWORD required"])
              /\ loc' = [loc EXCEPT ![p] = [NoLoc EXCEPT !.via = "cli"]]
         ELSE /\ pc' = [pc EXCEPT ![p] = "new_site"]
              /\ loc' = [loc EXCEPT ![p] = [NoLoc EXCEPT !.op = "create", !.via = "cli",
                                                         !.site = site]]
              /\ UNCHANGED resp
    /\ UNCHANGED <<EnvVars, req, calls, reported, fn>>

\* The caller has its answer; the next request can be taken.
Finish(p) ==
    /\ pc[p] = "done"
    /\ pc' = [pc EXCEPT ![p] = "idle"]
    /\ req' = [req EXCEPT ![p] = NoReq]
    /\ loc' = [loc EXCEPT ![p] = NoLoc]
    /\ calls' = [calls EXCEPT ![p] = <<>>]
    /\ resp' = [resp EXCEPT ![p] = NoResp]
    /\ UNCHANGED <<EnvVars, reported, fn>>

\* ------------------------------------------------ tenant_utils.create_tenant
\* An external call and how it ended: "ok", "fail" (nonzero exit, exception)
\* or "notfound" (the runtime's NotFound answer).
Call(c, r) == [c |-> c, r |-> r]
Log(p, cs) == calls' = [calls EXCEPT ![p] = @ \o cs]
Bench(c, returncode) == Call(c, IF returncode = 0 THEN "ok" ELSE "fail")

\* create_tenant returns result to its caller: admin_api.create_tenant passes it
\* on (_ensure_port adds nothing: an ok result always carries "port") and do_POST
\* answers 201 or 400; the command line prints it and exits 0 or 1.
CreateReturn(p, result) ==
    Respond(p, [result EXCEPT !.status =
                   IF loc[p].via = "api" THEN (IF result.ok THEN 201 ELSE 400)
                   ELSE (IF result.ok THEN 0 ELSE 1)])

\* An exception leaves create_tenant: admin_api.create_tenant catches it
\* (lines 143-145); on the command line it ends the process.
CreateRaise(p, exc) ==
    Respond(p, IF loc[p].via = "api"
               THEN [NoResp EXCEPT !.status = 400, !.error = "Tenant creation failed",
                                   !.detail = exc]
               ELSE [NoResp EXCEPT !.status = 1, !.error = "Traceback", !.detail = exc])

\* Lengths of the text a failed bench command leaves on stderr/stdout: nothing,
\* a line, more than the cap.
OutLens == {0, 40, ErrorCap + 1}

\* len(r.stderr or r.stdout or "<fallback>"): the command's text whole, the
\* fallback text when the command printed nothing.
ErrLen(out, fallback) == IF out = 0 THEN fallback ELSE out

\* The new-site exit code not looked at.
NewSiteFailedIgnored(returncode) == FALSE

\* line 262: if r.returncode != 0
NewSiteFailed(returncode) == returncode # 0

\* bench new-site (lines 254-265). bench refuses a name whose site exists.
NewSite(p) ==
    /\ pc[p] = "new_site"
    /\ LET site == loc[p].site IN
       \E returncode \in {0, 1}, out \in OutLens :
         /\ sites[site] # "none" => returncode # 0
         /\ returncode = 0 => out = 0
         /\ Log(p, <<Bench("new-site", returncode)>>)
         /\ sites' = [sites EXCEPT ![site] = IF returncode = 0 THEN "created" ELSE @]
         /\ IF NewSiteFailed(returncode)
            THEN CreateReturn(p, [NoResp EXCEPT !.error = "new-site failed",
                                                !.errlen = ErrLen(out, 15)])
            ELSE pc' = [pc EXCEPT ![p] = "install_app"] /\ UNCHANGED resp
    /\ UNCHANGED <<apiKeys, tmp, containers, req, loc, reported, fn>>

\* The install-app exit code not looked at.
InstallFailedIgnored(returncode) == FALSE

\* line 269: if r.returncode != 0
InstallFailed(returncode) == returncode # 0

\* bench --site <site> install-app erpnext (lines 267-272)
InstallApp(p) ==
    /\ pc[p] = "install_app"
    /\ LET site == loc[p].site IN
       \E returncode \in {0, 1}, out \in OutLens :
         /\ sites[site] = "none" => returncode # 0
         /\ returncode = 0 => out = 0
         /\ Log(p, <<Bench("install-app", returncode)>>)
         /\ sites' = [sites EXCEPT ![site] = IF returncode = 0 THEN "installed" ELSE @]
         /\ IF InstallFailed(returncode)
            THEN CreateReturn(p, [NoResp EXCEPT !.error = "install-app failed",
                                                !.errlen = ErrLen(out, 18)])
            ELSE pc' = [pc EXCEPT ![p] = "exec_keys"] /\ UNCHANGED resp
    /\ UNCHANGED <<apiKeys, tmp, containers, req, loc, reported, fn>>

\* What bench execute can leave in the uniquely named output file:
\*   "absent"    nothing was written
\*   "keys"      {"api_key": k, "api_secret": s}
\*   "secret"    {"api_secret": s}            (generate_keys of older frappe)
\*   "errobj"    {"error": ...}                (written by the script's except)
\*   "garbage"   text that is not JSON
\*   "nonobject" JSON that is not an object    (null, a list, a string)
FileContents == {"absent", "keys", "secret", "errobj", "garbage", "nonobject"}

\* bench --site <site> execute gen_script (lines 277-295)
ExecKeys(p) ==
    /\ pc[p] = "exec_keys"
    /\ LET site == loc[p].site IN
       \E returncode \in {0, 1}, content \in FileContents :
         /\ returncode # 0 => content \in {"absent", "errobj"}
         /\ returncode = 0 => content # "errobj"
         /\ sites[site] # "installed" => (returncode # 0 /\ content = "absent")
         /\ Log(p, <<Bench("execute", returncode)>>)
         /\ tmp' = [tmp EXCEPT ![p] = content]
         /\ apiKeys' = [apiKeys EXCEPT ![site] =
                           IF content \in {"keys", "secret"} THEN @ + 1 ELSE @]
         /\ loc' = [loc EXCEPT ![p].rc = returncode]
    /\ pc' = [pc EXCEPT ![p] = "read_keys"]
    /\ UNCHANGED <<sites, containers, req, resp, reported, fn>>

\* Lines 297-313: the keys parsed from the file, or the exception that neither
\* except clause catches ("" when none). open() raising OSError is caught.
ParseKeys(rc, content, oserror) ==
    IF rc # 0 \/ content = "absent" \/ oserror
    THEN [api_key |-> "", api_secret |-> "", exc |-> ""]
    ELSE CASE content = "keys" -> [api_key |-> "K", api_secret |-> "S", exc |-> ""]
           [] content = "secret" -> [api_key |-> "", api_secret |-> "S", exc |-> ""]
           [] content = "errobj" -> [api_key |-> "", api_secret |-> "", exc |-> ""]
           [] content = "garbage" -> [api_key |-> "", api_secret |-> "", exc |-> ""]
           [] OTHER -> [api_key |-> "", api_secret |-> "", exc |-> "AttributeError"]

\* The unlink placed after the try block instead of in its finally clause.
UnlinkUnlessRaised(content, exc) == IF exc # "" THEN content ELSE "absent"

\* Lines 314-319: finally: os.unlink(out_file), run whether or not the try
\* block raised exc. The file is the caller's own, so the unlink succeeds.
FinallyUnlink(content, exc) == "absent"

\* The result of lines 340-352.
CreateOk(site, port, frontend_created, api_key, api_secret) ==
    [NoResp EXCEPT !.ok = TRUE, !.site = site, !.port = port,
                   !.fe_created = frontend_created, !.creds = TRUE,
                   !.api_key = api_key, !.api_secret = api_secret,
                   !.token = IF api_key # "" /\ api_secret # ""
                             THEN <<"token ", api_key, ":", api_secret>> ELSE <<>>]

\* The port taken from whatever the runtime has free.
ResolvedPortFirstFree(port, site) ==
    IF port # NoPort THEN port
    ELSE IF \E c \in SvcNames : containers[c].status # "absent"
                                 /\ containers[c].port = ResolveTenantPort(Config, site)
         THEN Some(ResolveTenantPort(Config, site) + 1)
         ELSE Some(ResolveTenantPort(Config, site))

\* line 326: port if port is not None else resolve_tenant_port(site_name)
ResolvedPort(port, site) ==
    IF port # NoPort THEN port ELSE Some(ResolveTenantPort(Config, site))

\* create_tenant attaching a frontend whenever a port is resolved.
WantsFrontendAnyRequest(create_frontend, resolved_port) == resolved_port[1] # 0

\* line 330: if create_frontend and resolved_port
WantsFrontend(create_frontend, resolved_port) ==
    create_frontend /\ resolved_port[1] # 0

\* Lines 297-352 up to the frontend call: read the file, remove it, resolve the port.
ReadKeys(p) ==
    /\ pc[p] = "read_keys"
    /\ \E oserror \in BOOLEAN :
         LET l == loc[p]
             parsed == ParseKeys(l.rc, tmp[p], oserror)
             resolved_port == ResolvedPort(l.port, l.site)
         IN  /\ tmp' = [tmp EXCEPT ![p] = FinallyUnlink(@, parsed.exc)]
             /\ IF parsed.exc # ""
                THEN CreateRaise(p, parsed.exc) /\ UNCHANGED loc
                ELSE IF WantsFrontend(l.fe, resolved_port)
                THEN /\ pc' = [pc EXCEPT ![p] = "fe_resolve"]
                     /\ loc' = [loc EXCEPT ![p].port = resolved_port,
                                           ![p].api_key = parsed.api_key,
                                           ![p].api_secret = parsed.api_secret]
                     /\ UNCHANGED resp
                ELSE /\ CreateReturn(p, CreateOk(l.site, resolved_port, FALSE,
                                                 parsed.api_key, parsed.api_secret))
                     /\ UNCHANGED loc
    /\ UNCHANGED <<sites, apiKeys, containers, req, calls, reported, fn>>

\* ------------------------------------------- create_frontend_for_tenant
\* create_tenant adding the credentials to the record of a failed attach.
AttachReturnWithCredentials(p, fr) ==
    LET l == loc[p] IN
    IF l.op = "create"
    THEN IF ~fr.ok
         THEN CreateReturn(p, [CreateOk(l.site, l.port, FALSE, l.api_key, l.api_secret)
                                  EXCEPT !.ok = FALSE,
                                         !.error = "Tenant created but frontend failed",
                                         !.detail = fr.error])
         ELSE CreateReturn(p, CreateOk(l.site, l.port, TRUE, l.api_key, l.api_secret))
    ELSE Respond(p, [NoResp EXCEPT !.ok = fr.ok, !.error = fr.error, !.cid = fr.cid])

\* The function's result goes to its caller: create_tenant (lines 331-352) or,
\* for a direct call, the caller itself.
AttachReturn(p, fr) ==
    LET l == loc[p] IN
    IF l.op = "create"
    THEN IF ~fr.ok
         THEN CreateReturn(p, [NoResp EXCEPT !.error = "Tenant created but frontend failed",
                                             !.detail = fr.error, !.site = l.site,
                                             !.port = l.port])
         ELSE CreateReturn(p, CreateOk(l.site, l.port, TRUE, l.api_key, l.api_secret))
    ELSE Respond(p, [NoResp EXCEPT !.ok = fr.ok, !.error = fr.error, !.cid = fr.cid])

\* An exception leaves create_frontend_for_tenant.
AttachRaise(p, exc) ==
    IF loc[p].op = "create"
    THEN CreateRaise(p, exc)
    ELSE Respond(p, [NoResp EXCEPT !.status = 1, !.error = "Traceback", !.detail = exc])

FrError(e) == [ok |-> FALSE, cid |-> 0, error |-> e]
FrOk(cid) == [ok |-> TRUE, cid |-> cid, error |-> ""]

\* Lines 73-132: connect, find the backend container (by name, by compose
\* label, by name pattern), take its network, verify the network.
\* The backend container and the networks are not managed by this program:
\* what the runtime answers about them is an input of the step.
FeResolve(p) ==
    /\ pc[p] = "fe_resolve"
    /\ \E connect \in {"ok", "fail"},
          backend \in {"name", "label", "pattern", "absent", "error"},
          status \in {"running", "exited"},
          network \in {"ok", "notfound", "fail"} :
         LET lookup == Call("docker.find backend",
                            CASE backend = "absent" -> "notfound"
                              [] backend = "error" -> "fail"
                              [] OTHER -> "ok")
         IN
         IF ~DockerSdk
         THEN AttachReturn(p, FrError("Docker SDK not installed")) /\ UNCHANGED <<calls, loc>>
         ELSE IF connect # "ok"
         THEN /\ AttachReturn(p, FrError("Cannot connect to Docker"))
              /\ Log(p, <<Call("docker.from_env", "fail")>>)
              /\ UNCHANGED loc
         ELSE IF backend = "absent"
         THEN /\ AttachReturn(p, FrError("Backend container not found"))
              /\ Log(p, <<Call("docker.from_env", "ok"), lookup>>)
              /\ UNCHANGED loc
         ELSE IF backend # "error" /\ status # "running"
         THEN /\ AttachReturn(p, FrError("Backend container is not running"))
              /\ Log(p, <<Call("docker.from_env", "ok"), lookup>>)
              /\ UNCHANGED loc
         ELSE /\ Log(p, <<Call("docker.from_env", "ok"), lookup,
                          Call("docker.get network", network)>>)
              /\ IF network = "notfound"
                 THEN AttachReturn(p, FrError("Network not found")) /\ UNCHANGED loc
                 ELSE IF network = "fail"
                 THEN AttachRaise(p, "APIError") /\ UNCHANGED loc
                 ELSE /\ pc' = [pc EXCEPT ![p] = "fe_portscan"]
                      /\ loc' = [loc EXCEPT ![p].backend =
                                    IF backend = "error" THEN "unknown" ELSE "running"]
                      /\ UNCHANGED resp
    /\ UNCHANGED <<EnvVars, req, reported, fn>>

\* The runtime gives a new container an id no existing container has.
FreshId ==
    CHOOSE i \in 1..(Cardinality(SvcNames) + 1) :
        \A c \in SvcNames : containers[c].status = "absent" \/ containers[c].id # i

\* Lines 137-149: some container's HostConfig.PortBindings names the port.
PortPublished(port) ==
    \E c \in SvcNames : containers[c].status # "absent" /\ containers[c].port = port

\* Lines 135-151: whether the scan finds the port taken; a failed listing is
\* logged and the scan skipped.
PortInUse(listing_ok, port) == listing_ok /\ PortPublished(port)

\* The port check and the creation of the container as one indivisible step.
FePortScanAndRun(p) ==
    /\ pc[p] = "fe_portscan"
    /\ LET svc == ServiceName(loc[p].site)
           port == loc[p].port[1]
       IN  /\ Log(p, <<Call("docker.list", "ok")>>)
           /\ IF PortInUse(TRUE, port) \/ containers[svc].status # "absent"
              THEN AttachReturn(p, FrError("Port already in use")) /\ UNCHANGED containers
              ELSE /\ containers' = [containers EXCEPT ![svc] =
                          [status |-> "running", port |-> port, id |-> FreshId,
                           site |-> loc[p].site]]
                   /\ AttachReturn(p, FrOk(FreshId))
    /\ UNCHANGED <<sites, apiKeys, tmp, req, loc, reported, fn>>

\* Lines 134-151: the port check; nothing is created or reserved here.
FePortScan(p) ==
    /\ pc[p] = "fe_portscan"
    /\ \E listing_ok \in BOOLEAN :
         /\ Log(p, <<Call("docker.list", IF listing_ok THEN "ok" ELSE "fail")>>)
         /\ IF PortInUse(listing_ok, loc[p].port[1])
            THEN AttachReturn(p, FrError("Port already in use"))
            ELSE pc' = [pc EXCEPT ![p] = "fe_existing"] /\ UNCHANGED resp
    /\ UNCHANGED <<EnvVars, req, loc, reported, fn>>

\* Lines 153-161: an existing container of the service name is reused when
\* running, removed otherwise.
FeExisting(p) ==
    /\ pc[p] = "fe_existing"
    /\ LET svc == ServiceName(loc[p].site)
           existing == containers[svc]
       IN
       \E get \in {"ok", "fail"}, remove \in {"ok", "fail"} :
         IF get = "fail"
         THEN /\ AttachRaise(p, "APIError")
              /\ Log(p, <<Call("docker.get", "fail")>>)
              /\ UNCHANGED containers
         ELSE IF existing.status = "absent"
         THEN /\ pc' = [pc EXCEPT ![p] = "fe_run"]
              /\ Log(p, <<Call("docker.get", "notfound")>>)
              /\ UNCHANGED <<containers, resp>>
         ELSE IF existing.status = "running"
         THEN /\ AttachReturn(p, FrOk(existing.id))
              /\ Log(p, <<Call("docker.get", "ok")>>)
              /\ UNCHANGED containers
         ELSE /\ Log(p, <<Call("docker.get", "ok"), Call("docker.remove", remove)>>)
              /\ IF remove = "fail"
                 THEN AttachRaise(p, "APIError") /\ UNCHANGED containers
                 ELSE /\ containers' = [containers EXCEPT ![svc] = NoContainer]
                      /\ pc' = [pc EXCEPT ![p] = "fe_run"]
                      /\ UNCHANGED resp
    /\ UNCHANGED <<sites, apiKeys, tmp, req, loc, reported, fn>>

\* Lines 174-192: client.containers.run creates the container and starts it.
\* The runtime refuses a name in use, and refuses to start a container whose
\* host port a running container holds (the created container then remains).
FeRun(p) ==
    /\ pc[p] = "fe_run"
    /\ LET svc == ServiceName(loc[p].site)
           port == loc[p].port[1]
           conflict == containers[svc].status # "absent"
           busy == \E c \in SvcNames : containers[c].status = "running"
                                       /\ containers[c].port = port
           made(st) == [status |-> st, port |-> port, id |-> FreshId, site |-> loc[p].site]
       IN
       \E outcome \in {"ok", "ImageNotFound", "APIError"} :
         /\ (conflict \/ busy) => outcome # "ok"
         /\ Log(p, <<Call("docker.run", IF outcome = "ok" THEN "ok" ELSE "fail")>>)
         /\ IF outcome = "ok"
            THEN /\ containers' = [containers EXCEPT ![svc] = made("running")]
                 /\ AttachReturn(p, FrOk(FreshId))
            ELSE IF outcome = "ImageNotFound"
            THEN /\ AttachReturn(p, FrError("Image not found"))
                 /\ UNCHANGED containers
            ELSE /\ AttachReturn(p, FrError("APIError"))
                 /\ IF ~conflict /\ busy
                    THEN containers' = [containers EXCEPT ![svc] = made("exited")]
                    ELSE UNCHANGED containers
    /\ UNCHANGED <<sites, apiKeys, tmp, req, loc, reported, fn>>

\* A frontend container stops outside this program (crash, docker stop).
ContainerExits ==
    /\ \E c \in SvcNames :
         /\ containers[c].status = "running"
         /\ containers' = [containers EXCEPT ![c].status = "exited"]
    /\ UNCHANGED <<sites, apiKeys, tmp, pc, req, loc, calls, resp, reported, fn>>

\* ------------------------------------------- remove_frontend_for_tenant
\* delete_tenant giving up when the detach reports an error.
DetachReturnAbortOnError(p, fr) ==
    IF loc[p].op = "delete" /\ fr.ok
    THEN /\ pc' = [pc EXCEPT ![p] = "drop_site"]
         /\ loc' = [loc EXCEPT ![p].removed = fr.removed]
         /\ UNCHANGED resp
    ELSE /\ Respond(p, [NoResp EXCEPT !.status = IF loc[p].op = "delete" THEN 400 ELSE 0,
                                      !.ok = fr.ok, !.removed = fr.removed,
                                      !.error = fr.error])
         /\ UNCHANGED loc

\* The function's result [ok, removed] goes to its caller: delete_tenant keeps
\* fr.get("removed", False) and goes on to drop-site (lines 191-204).
DetachReturn(p, fr) ==
    IF loc[p].op = "delete"
    THEN /\ pc' = [pc EXCEPT ![p] = "drop_site"]
         /\ loc' = [loc EXCEPT ![p].removed = fr.removed]
         /\ UNCHANGED resp
    ELSE /\ Respond(p, [NoResp EXCEPT !.ok = fr.ok, !.removed = fr.removed,
                                      !.error = fr.error])
         /\ UNCHANGED loc

DetachError(e) == [ok |-> FALSE, removed |-> FALSE, error |-> e]

\* NotFound handled by the general DockerException clause.
DetachNotFoundAsError == DetachError("DockerException")

\* Lines 211-213: except docker.errors.NotFound
DetachNotFound == [ok |-> TRUE, removed |-> FALSE, error |-> ""]

\* Lines 204-221: connect, get, stop and remove the container; NotFound is a
\* success without removal, any other DockerException an error. The runtime can
\* fail to answer (from_env or containers.get raising) whether or not the
\* container exists; it answers NotFound only when there is none.
RemoveFrontend(p) ==
    /\ pc[p] = "rm_frontend"
    /\ LET svc == ServiceName(loc[p].site) IN
       \E outcome \in {"done", "NotFound", "get failed", "stop failed", "remove failed"} :
         /\ outcome = "NotFound" => containers[svc].status = "absent"
         /\ outcome \in {"done", "stop failed", "remove failed"}
                => containers[svc].status # "absent"
         /\ IF ~DockerSdk
            THEN /\ UNCHANGED <<containers, calls>>
                 /\ DetachReturn(p, DetachError("Docker SDK not installed"))
            ELSE CASE outcome = "done" ->
                        /\ containers' = [containers EXCEPT ![svc] = NoContainer]
                        /\ Log(p, <<Call("docker.get", "ok"), Call("docker.stop", "ok"),
                                    Call("docker.remove", "ok")>>)
                        /\ DetachReturn(p, [ok |-> TRUE, removed |-> TRUE, error |-> ""])
                   [] outcome = "remove failed" ->
                        /\ containers' = [containers EXCEPT ![svc].status = "exited"]
                        /\ Log(p, <<Call("docker.get", "ok"), Call("docker.stop", "ok"),
                                    Call("docker.remove", "fail")>>)
                        /\ DetachReturn(p, DetachError("DockerException"))
                   [] outcome = "stop failed" ->
                        /\ Log(p, <<Call("docker.get", "ok"), Call("docker.stop", "fail")>>)
                        /\ UNCHANGED containers
                        /\ DetachReturn(p, DetachError("DockerException"))
                   [] outcome = "NotFound" ->
                        /\ Log(p, <<Call("docker.get", "notfound")>>)
                        /\ UNCHANGED containers
                        /\ DetachReturn(p, DetachNotFound)
                   [] OTHER ->
                        /\ Log(p, <<Call("docker.get", "fail")>>)
                        /\ UNCHANGED containers
                        /\ DetachReturn(p, DetachError("DockerException"))
    /\ UNCHANGED <<sites, apiKeys, tmp, req, reported, fn>>

\* line 205: if r.returncode != 0
DropFailed(returncode) == returncode # 0

\* admin_api.delete_tenant lines 195-213: bench drop-site and the result.
DropSite(p) ==
    /\ pc[p] = "drop_site"
    /\ LET site == loc[p].site IN
       \E returncode \in {0, 1}, out \in OutLens :
         /\ sites[site] = "none" => returncode # 0
         /\ returncode = 0 => out = 0
         /\ Log(p, <<Bench("drop-site", returncode)>>)
         /\ sites' = [sites EXCEPT ![site] = IF returncode = 0 THEN "none" ELSE @]
         /\ apiKeys' = [apiKeys EXCEPT ![site] = IF returncode = 0 THEN 0 ELSE @]
         /\ IF DropFailed(returncode)
            THEN Respond(p, [ErrorResp(400, "drop-site failed") EXCEPT
                                !.errlen = ErrLen(out, 16)])
            ELSE Respond(p, [NoResp EXCEPT !.status = 200, !.ok = TRUE, !.site = site,
                                           !.detail = "Tenant deleted",
                                           !.removed = loc[p].removed])
    /\ UNCHANGED <<tmp, containers, req, loc, reported, fn>>

\* ------------------------------------------------------------ specification
Step(p) ==
    \/ Receive(p)
    \/ DoGET(p)
    \/ DoPOST(p)
    \/ DoDELETE(p)
    \/ ListTenants(p)
    \/ CliMain(p)
    \/ NewSite(p)
    \/ InstallApp(p)
    \/ ExecKeys(p)
    \/ ReadKeys(p)
    \/ FeResolve(p)
    \/ FePortScan(p)
    \/ FeExisting(p)
    \/ FeRun(p)
    \/ RemoveFrontend(p)
    \/ DropSite(p)
    \/ Finish(p)

\* One operation at a time: the single-threaded server, or the command line
\* run while the server is idle.
Next == Step(Server) \/ ContainerExits

Spec == Init /\ [][Next]_vars

\* ------------------------------------- the frontend functions called directly
\* create_frontend_for_tenant(site_name, port) called by an importer.
CallAttach(p) ==
    /\ pc[p] = "idle"
    /\ \E site \in Idents, port \in {8080, 8081} :
         loc' = [loc EXCEPT ![p] = [NoLoc EXCEPT !.op = "attach", !.via = "direct",
                                                 !.site = site, !.port = Some(port)]]
    /\ pc' = [pc EXCEPT ![p] = "fe_resolve"]
    /\ UNCHANGED <<EnvVars, req, calls, resp, reported, fn>>

\* remove_frontend_for_tenant(site_name) called by an importer.
CallDetach(p) ==
    /\ pc[p] = "idle"
    /\ \E site \in Idents :
         loc' = [loc EXCEPT ![p] = [NoLoc EXCEPT !.op = "detach", !.via = "direct",
                                                 !.site = site]]
    /\ pc' = [pc EXCEPT ![p] = "rm_frontend"]
    /\ UNCHANGED <<EnvVars, req, calls, resp, reported, fn>>

FrontendStep(p) ==
    \/ CallAttach(p)
    \/ CallDetach(p)
    \/ FeResolve(p)
    \/ FePortScan(p)
    \/ FeExisting(p)
    \/ FeRun(p)
    \/ RemoveFrontend(p)
    \/ Finish(p)

\* Attach and detach calls one after the other, never overlapping.
NextFrontend == FrontendStep(Server) \/ ContainerExits

SpecFrontend == Init /\ [][NextFrontend]_vars

\* ----------------------------------------------- attach calls that overlap
\* create_frontend_for_tenant called by two callers at once (two processes
\* importing tenant_utils): their steps interleave in any order.
CallAttachConcurrent(p) ==
    /\ pc[p] = "idle"
    /\ \E site \in {SiteAB, SiteADotB}, port \in {8080, 8081} :
         loc' = [loc EXCEPT ![p] = [NoLoc EXCEPT !.op = "attach", !.via = "direct",
                                                 !.site = site, !.port_arg = Some(port),
                                                 !.port = Some(port)]]
    /\ pc' = [pc EXCEPT ![p] = "fe_resolve"]
    /\ UNCHANGED <<EnvVars, req, calls, resp, reported, fn>>

ConcurrentStep(p) ==
    \/ CallAttachConcurrent(p)
    \/ FeResolve(p)
    \/ FePortScan(p)
    \/ FeExisting(p)
    \/ FeRun(p)
    \/ Finish(p)

NextConcurrent == \E p \in Procs : ConcurrentStep(p)

SpecConcurrent == Init /\ [][NextConcurrent]_vars

\* ------------------------------- create, delete and recreate through the API
\* Authorized, well-formed create and delete requests for one site, with and
\* without a port, with and without a frontend.
CycleRequests ==
    {r \in PostRequests \cup DeleteRequests :
        /\ r.path \in {"/admin/tenant", "/admin/tenant/{id}"}
        /\ r.xkey = ADMIN_API_KEY /\ r.authz = NoAuthz
        /\ r.body = "obj" /\ r.pw /\ r.no_backup
        /\ r.site = SiteAB
        /\ r.port \in {RawNone, RawInt(8080), RawInt(8081)}}

ReceiveCycle(p) ==
    /\ pc[p] = "idle"
    /\ \E r \in CycleRequests : req' = [req EXCEPT ![p] = r]
    /\ pc' = [pc EXCEPT ![p] = "recv"]
    /\ UNCHANGED <<EnvVars, loc, calls, resp, reported, fn>>

\* Finish with the observer's record of what a successful create answered.
FinishCycle(p) ==
    /\ pc[p] = "done"
    /\ pc' = [pc EXCEPT ![p] = "idle"]
    /\ req' = [req EXCEPT ![p] = NoReq]
    /\ loc' = [loc EXCEPT ![p] = NoLoc]
    /\ calls' = [calls EXCEPT ![p] = <<>>]
    /\ resp' = [resp EXCEPT ![p] = NoResp]
    /\ IF loc[p].op = "create" /\ resp[p].ok
       THEN LET s == loc[p].site
                h == reported[s]
                portless == loc[p].port_arg = NoPort
            IN  reported' = [reported EXCEPT ![s] =
                    [first |-> IF h.first = NoPort THEN resp[p].port ELSE h.first,
                     resolved |-> IF portless /\ h.resolved = NoPort
                                  THEN resp[p].port ELSE h.resolved]]
       ELSE UNCHANGED reported
    /\ UNCHANGED <<EnvVars, fn>>

CycleStep(p) ==
    \/ ReceiveCycle(p)
    \/ DoPOST(p)
    \/ DoDELETE(p)
    \/ NewSite(p)
    \/ InstallApp(p)
    \/ ExecKeys(p)
    \/ ReadKeys(p)
    \/ FeResolve(p)
    \/ FePortScan(p)
    \/ FeExisting(p)
    \/ FeRun(p)
    \/ RemoveFrontend(p)
    \/ DropSite(p)
    \/ FinishCycle(p)

NextCycles == CycleStep(Server) \/ ContainerExits

SpecCycles == Init /\ [][NextCycles]_vars

\* ------------------------------------------ resolve_tenant_port on its own
\* Entries of TENANT_PORTS after split(",") and strip(): with or without a
\* colon, a site name, and the text after the last colon.
Entry(site, val) == [colon |-> TRUE, site |-> site, val |-> val]
PortTables ==
    {<<>>,
     <<Entry(SiteADashB, EnvNum(8083))>>,
     <<Entry(SiteADashB, EnvNum(0)), Entry(SiteADashB, EnvNum(8083))>>,
     <<Entry(SiteADashB, EnvBad), Entry(SiteADashB, EnvNum(8083))>>,
     <<[colon |-> FALSE, site |-> SiteADashB, val |-> EnvUnset],
       Entry(SiteADashB, EnvNum(8083))>>,
     <<Entry(SiteAB, EnvNum(8084)), Entry(SiteADashB, EnvNum(8083)),
       Entry(SiteADashB, EnvNum(8085))>>}

\* Environments: every variable unset, set to a numeral, or set to text that
\* is no numeral; tenant names that coincide or not.
Configs ==
    {[HTTP_PUBLISH_PORT |-> h, FRAPPE_SITE_NAME_HEADER |-> n1,
      TENANT2_SITE_NAME |-> n2, TENANT2_HTTP_PORT |-> p2,
      TENANT3_SITE_NAME |-> n3, TENANT3_HTTP_PORT |-> p3, TENANT_PORTS |-> t] :
        h \in {EnvUnset, EnvNum(9000), EnvNum(0), EnvBad},
        n1 \in {<<>>, SiteAB},
        n2 \in {SiteAB, SiteADotB}, p2 \in {EnvNum(8086), EnvBad},
        n3 \in {<<>>, SiteADotB}, p3 \in {EnvUnset, EnvNum(8090)},
        t \in PortTables}

InitResolve ==
    /\ sites = [s \in Idents |-> "none"]
    /\ apiKeys = [s \in Idents |-> 0]
    /\ tmp = [p \in Procs |-> "absent"]
    /\ containers = [c \in SvcNames |-> NoContainer]
    /\ pc = [p \in Procs |-> "idle"]
    /\ req = [p \in Procs |-> NoReq]
    /\ loc = [p \in Procs |-> NoLoc]
    /\ calls = [p \in Procs |-> <<>>]
    /\ resp = [p \in Procs |-> NoResp]
    /\ reported = [s \in Idents |-> NoReport]
    /\ \E cfg \in Configs, site \in Idents \cup {<<>>} :
         fn = [name |-> "resolve_tenant_port", cfg |-> cfg, site |-> site,
               out |-> NoPort, again |-> NoPort]

\* resolve_tenant_port(site) under the environment cfg.
ResolveCall ==
    /\ fn.name = "resolve_tenant_port"
    /\ fn.out = NoPort
    /\ fn' = [fn EXCEPT !.out = Some(ResolveTenantPort(fn.cfg, fn.site))]
    /\ UNCHANGED <<EnvVars, pc, req, loc, calls, resp, reported>>

\* A second call under the same environment.
ResolveAgain ==
    /\ fn.name = "resolve_tenant_port"
    /\ fn.out # NoPort
    /\ fn.again = NoPort
    /\ fn' = [fn EXCEPT !.again = Some(ResolveTenantPort(fn.cfg, fn.site))]
    /\ UNCHANGED <<EnvVars, pc, req, loc, calls, resp, reported>>

NextResolve == ResolveCall \/ ResolveAgain

SpecResolve == InitResolve /\ [][NextResolve]_vars

\* ---------------------------------------------- the identifier check on its own
\* Characters of the strings checked: letters, a digit, the two allowed
\* separators, a character outside the class, and a newline.
Chars == {"a", "A", "0", ".", "-", "_", "\n"}
MaxNameLen == 3
Strings == UNION {[1..n -> Chars] : n \in 0..MaxNameLen}

InitValidate ==
    /\ sites = [s \in Idents |-> "none"]
    /\ apiKeys = [s \in Idents |-> 0]
    /\ tmp = [p \in Procs |-> "absent"]
    /\ containers = [c \in SvcNames |-> NoContainer]
    /\ pc = [p \in Procs |-> "idle"]
    /\ req = [p \in Procs |-> NoReq]
    /\ loc = [p \in Procs |-> NoLoc]
    /\ calls = [p \in Procs |-> <<>>]
    /\ resp = [p \in Procs |-> NoResp]
    /\ reported = [s \in Idents |-> NoReport]
    /\ \E str \in Strings :
         fn = [name |-> "validate", s |-> str, create |-> "?", delete |-> "?"]

\* admin_api.create_tenant(s, pw) and admin_api.delete_tenant(s) up to the end
\* of their checks: the error returned, "" when the checks pass.
ValidateCall ==
    /\ fn.name = "validate"
    /\ fn.create = "?"
    /\ fn' = [fn EXCEPT !.create = CreateChecks(fn.s, NoPort, FALSE),
                        !.delete = DeleteChecks(fn.s)]
    /\ UNCHANGED <<EnvVars, pc, req, loc, calls, resp, reported>>

NextValidate == ValidateCall

SpecValidate == InitValidate /\ [][NextValidate]_vars

\* ------------------------------------------------ require_auth on its own
\* Values of ADMIN_API_KEY, of the X-Admin-API-Key header ("" when absent,
\* line 67) and of the Authorization header.
AuthSecrets == {"", "k1", "k2"}
AuthKeys == {"", "k1", "k2"}
AuthHeaders == {NoAuthz, Bearer(""), Bearer("k1"), Bearer("k2"), Basic("k1"), Basic("k2")}

InitAuth ==
    /\ sites = [s \in Idents |-> "none"]
    /\ apiKeys = [s \in Idents |-> 0]
    /\ tmp = [p \in Procs |-> "absent"]
    /\ containers = [c \in SvcNames |-> NoContainer]
    /\ pc = [p \in Procs |-> "idle"]
    /\ req = [p \in Procs |-> NoReq]
    /\ loc = [p \in Procs |-> NoLoc]
    /\ calls = [p \in Procs |-> <<>>]
    /\ resp = [p \in Procs |-> NoResp]
    /\ reported = [s \in Idents |-> NoReport]
    /\ \E secret \in AuthSecrets, xkey \in AuthKeys, authz \in AuthHeaders :
         fn = [name |-> "require_auth", secret |-> secret, xkey |-> xkey,
               authz |-> authz, out |-> <<>>, bare |-> <<>>]

\* require_auth(handler) for the request's headers
AuthCall ==
    /\ fn.name = "require_auth"
    /\ fn.out = <<>>
    /\ fn' = [fn EXCEPT !.out = <<RequireAuth(fn.secret, fn.xkey, fn.authz)>>]
    /\ UNCHANGED <<EnvVars, pc, req, loc, calls, resp, reported>>

\* require_auth(handler) for the same request sent without its Authorization
\* header
AuthCallBare ==
    /\ fn.name = "require_auth"
    /\ fn.bare = <<>>
    /\ fn' = [fn EXCEPT !.bare = <<RequireAuth(fn.secret, fn.xkey, NoAuthz)>>]
    /\ UNCHANGED <<EnvVars, pc, req, loc, calls, resp, reported>>

NextAuth == AuthCall \/ AuthCallBare

SpecAuth == InitAuth /\ [][NextAuth]_vars

\* ================================================================== claims
Cmds(p) == {calls[p][i].c : i \in 1..Len(calls[p])}
HasCall(p, c) == c \in Cmds(p)
FrontendPcs == {"fe_resolve", "fe_portscan", "fe_existing", "fe_run", "rm_frontend"}
SiteOps == {"create", "delete", "attach", "detach"}

\* C1: whoever the caller, no bench command is run and no container name is
\* derived for a site name the validator rejects.
C1_ValidatedBeforeExternalStep ==
    \A p \in Procs :
        (loc[p].op \in SiteOps /\ (calls[p] # <<>> \/ pc[p] \in FrontendPcs))
            => ValidName(loc[p].site)

\* A request that carries the configured secret in neither header.
NoKeyPresented(r) ==
    /\ r.xkey # ADMIN_API_KEY
    /\ ~(r.authz.scheme = "Bearer" /\ r.authz.cred = ADMIN_API_KEY)

TenantRoutes == {"/admin/tenant", "/admin/tenant/{id}"}

HealthRoutes == {"/", "/health", "/admin/health"}

\* C2: a request that presents the secret in neither header is answered at
\* once, without any external call and without change to sites, keys, files
\* or containers: 401 on a tenant route, and 200 on the health routes only.
C2_UnauthorizedRejected ==
    [][\A p \in Procs :
         (pc[p] = "recv" /\ NoKeyPresented(req[p]) /\ pc'[p] # "recv")
         => /\ pc'[p] = "done"
            /\ calls'[p] = <<>>
            /\ EnvVars' = EnvVars
            /\ req[p].path \in TenantRoutes => resp'[p].status = 401
            /\ resp'[p].status \in {200, 201} => req[p].path \in HealthRoutes]_vars

C2_Witness ==
    \E p \in Procs :
        /\ pc[p] = "done"
        /\ req[p].method = "DELETE"
        /\ req[p].path = "/admin/tenant/{id}"
        /\ NoKeyPresented(req[p])
        /\ resp[p].status = 401
        /\ calls[p] = <<>>

\* C3: a create for a name whose site exists fails at new-site without running
\* the key command, and the keys of a site are generated at most once.
C3_KeysIssuedOnce ==
    /\ [](\A s \in Idents : apiKeys[s] <= 1)
    /\ [][\A p \in Procs :
            (pc[p] = "new_site" /\ sites[loc[p].site] # "none" /\ pc'[p] # "new_site")
            => /\ pc'[p] = "done"
               /\ ~resp'[p].ok
               /\ ~HasCall(p, "execute")'
               /\ apiKeys' = apiKeys
               /\ sites' = sites]_vars

C3_Witness ==
    \E p \in Procs :
        /\ pc[p] = "done"
        /\ loc[p].op = "create"
        /\ calls[p] = <<Call("new-site", "fail")>>
        /\ sites[loc[p].site] = "installed"
        /\ apiKeys[loc[p].site] = 1
        /\ ~resp[p].ok

DockerCmds == {"docker.from_env", "docker.find backend", "docker.get network",
               "docker.list", "docker.get", "docker.remove", "docker.run"}

\* C4: a create runs new-site, install-app, the key command and the frontend
\* calls in that order; a failed new-site or install-app is the last call of
\* the create, its error is the one returned, and no drop-site is issued: the
\* site new-site made is still there.
C4_StepsInOrderAbortOnFailure ==
    \A p \in Procs :
        loc[p].op = "create" =>
            LET log == calls[p] IN
            /\ \A i \in 1..Len(log) :
                 /\ log[i].c = "new-site" <=> i = 1
                 /\ log[i].c = "install-app" <=> i = 2
                 /\ log[i].c = "execute" <=> i = 3
                 /\ log[i].c \in DockerCmds <=> i > 3
                 /\ (log[i].c \in {"new-site", "install-app"} /\ log[i].r = "fail")
                       => /\ i = Len(log)
                          /\ pc[p] = "done"
                          /\ ~resp[p].ok
                          /\ resp[p].error = IF i = 1 THEN "new-site failed"
                                             ELSE "install-app failed"
            /\ ~HasCall(p, "drop-site")
            /\ (Len(log) >= 2 /\ log[2].r = "fail") => sites[loc[p].site] = "created"

C4_Witness ==
    \E p \in Procs :
        /\ pc[p] = "done"
        /\ loc[p].op = "create"
        /\ calls[p] = <<Call("new-site", "ok"), Call("install-app", "fail")>>
        /\ resp[p].error = "install-app failed"
        /\ sites[loc[p].site] = "created"

\* C5: once new-site and install-app have succeeded, whatever the key command
\* and its output file turn out to be, a create without frontend returns ok.
C5_CredentialStepNeverFailsCreate ==
    \A p \in Procs :
        (pc[p] = "done" /\ loc[p].op = "create" /\ ~loc[p].fe /\ HasCall(p, "execute"))
            => resp[p].ok

\* C6: outside the step that reads it, the temporary credential file of a
\* create does not exist: it is gone when the create returns or raises.
C6_TempFileRemoved ==
    \A p \in Procs : pc[p] # "read_keys" => tmp[p] = "absent"

\* A create that raised while reading the file, the file being gone.
C6_Witness ==
    \E p \in Procs :
        /\ pc[p] = "done"
        /\ loc[p].op = "create"
        /\ HasCall(p, "execute")
        /\ resp[p].detail = "AttributeError"
        /\ tmp[p] = "absent"

\* A "port" of the body that is absent, no integer, or outside 1..65535.
InvalidPort(raw) == raw.t # "int" \/ raw.n < MinPort \/ raw.n > MaxPort

\* C7: an authorized, well-formed create request that asks for a frontend with
\* an invalid port is answered 400 with the port error by the handler, which
\* makes no external call and changes nothing.
C7_BadPortRejectedUpFront ==
    [][\A p \in Procs :
         (/\ pc[p] = "recv" /\ pc'[p] # "recv"
          /\ req[p].method = "POST" /\ req[p].path = "/admin/tenant"
          /\ req[p].xkey = ADMIN_API_KEY
          /\ req[p].body = "obj" /\ req[p].pw /\ ValidName(req[p].site)
          /\ req[p].fe /\ InvalidPort(req[p].port))
         => /\ pc'[p] = "done"
            /\ resp'[p].status = 400
            /\ resp'[p].error = "port required and must be 1-65535 when create_frontend is true"
            /\ calls'[p] = <<>>
            /\ EnvVars' = EnvVars]_vars

\* C8: a create whose provisioning succeeded and whose frontend attach failed
\* reports that the tenant was created, with site name and port, issues no
\* drop-site, and leaves the site in place.
C8_AttachFailureReported ==
    \A p \in Procs :
        (pc[p] = "done" /\ loc[p].op = "create" /\ HasCall(p, "docker.from_env")
           /\ ~resp[p].ok)
            => /\ resp[p].error = "Tenant created but frontend failed"
               /\ resp[p].site = loc[p].site
               /\ resp[p].port = loc[p].port
               /\ ~HasCall(p, "drop-site")
               /\ sites[loc[p].site] = "installed"

\* Every runtime call of the attach of p was answered (none raised an error).
NoRuntimeError(p) ==
    \A i \in 1..Len(calls[p]) : calls[p][i].c \in DockerCmds => calls[p][i].r # "fail"

\* C9: an attach that finds the frontend container of its site name running on
\* the requested port, and creates no container itself, returns ok with that
\* container's id.
C9_AttachIdempotent ==
    \A p \in Procs :
        LET c == containers[ServiceName(loc[p].site)] IN
        (/\ pc[p] = "done" /\ loc[p].op = "attach" /\ ValidName(loc[p].site)
         /\ HasCall(p, "docker.list") /\ NoRuntimeError(p)
         /\ ~HasCall(p, "docker.run")
         /\ c.status = "running" /\ c.site = loc[p].site /\ c.port = loc[p].port[1])
            => (resp[p].ok /\ resp[p].cid = c.id)

\* C10: after attach and detach calls that do not overlap, no two frontend
\* containers publish the same host port.
C10_NoTwoFrontendsShareAPort ==
    \A c1, c2 \in SvcNames :
        (/\ c1 # c2
         /\ containers[c1].status # "absent" /\ ValidName(containers[c1].site)
         /\ containers[c2].status # "absent" /\ ValidName(containers[c2].site))
            => containers[c1].port # containers[c2].port

\* C11: a successful attach for a valid identifier returns a container that
\* serves that identifier (its FRAPPE_SITE_NAME_HEADER), never the container
\* of another identifier.
C11_AttachReturnsOwnContainer ==
    \A p \in Procs :
        (/\ pc[p] = "done" /\ loc[p].op = "attach" /\ ValidName(loc[p].site)
         /\ NoRuntimeError(p) /\ resp[p].ok)
            => \A c \in SvcNames :
                 (containers[c].status # "absent" /\ containers[c].id = resp[p].cid)
                     => containers[c].site = loc[p].site

DetachOfAbsent(p) ==
    /\ pc[p] = "rm_frontend" /\ loc[p].op = "detach" /\ ValidName(loc[p].site)
    /\ containers[ServiceName(loc[p].site)].status = "absent"
    /\ pc'[p] = "done"

\* C12 as stated: a detach for an identifier that has no frontend container
\* always answers ok with removed = false and no error, and changes no container.
C12_DetachOfAbsentAlwaysOk ==
    [][\A p \in Procs :
         DetachOfAbsent(p)
         => /\ resp'[p].ok /\ ~resp'[p].removed /\ resp'[p].error = ""
            /\ containers' = containers]_vars

\* C12 amended: a detach for an identifier that has no frontend container
\* changes no container and reports removed = false; it answers ok without an
\* error exactly when the runtime answered the lookup (NotFound), and an error
\* when the runtime could not be reached or failed to answer.
C12_DetachOfAbsentOkWhenAnswered ==
    [][\A p \in Procs :
         DetachOfAbsent(p)
         => /\ containers' = containers
            /\ ~resp'[p].removed
            /\ resp'[p].ok <=> calls'[p] = <<Call("docker.get", "notfound")>>
            /\ resp'[p].ok <=> resp'[p].error = ""]_vars

C12_Witness ==
    \E p \in Procs :
        /\ pc[p] = "done" /\ loc[p].op = "detach" /\ ValidName(loc[p].site)
        /\ calls[p] = <<Call("docker.get", "notfound")>>
        /\ resp[p].ok /\ ~resp[p].removed /\ resp[p].error = ""
        /\ containers[ServiceName(loc[p].site)].status = "absent"

DropSiteCalls(p) == {i \in 1..Len(calls[p]) : calls[p][i].c = "drop-site"}

\* C13: a delete with frontend removal attempts the detach first and then runs
\* drop-site exactly once, whatever the detach answered (removed, not found,
\* error): no delete ends without its one drop-site call, which is the last call.
C13_DetachThenDropSiteOnce ==
    \A p \in Procs :
        (loc[p].op = "delete" /\ loc[p].rm_fe)
            => /\ pc[p] \in {"rm_frontend", "drop_site", "done"}
               /\ pc[p] = "rm_frontend" => calls[p] = <<>>
               /\ pc[p] = "drop_site"
                    => /\ calls[p] # <<>>
                       /\ \A i \in 1..Len(calls[p]) : calls[p][i].c \in DockerCmds \cup {"docker.stop"}
               /\ pc[p] = "done"
                    => /\ Len(calls[p]) >= 2
                       /\ DropSiteCalls(p) = {Len(calls[p])}
                       /\ calls[p][1].c = "docker.get"

C13_Witness ==
    \E p \in Procs :
        /\ pc[p] = "done" /\ loc[p].op = "delete" /\ loc[p].rm_fe
        /\ calls[p] = <<Call("docker.get", "ok"), Call("docker.stop", "fail"),
                        Call("drop-site", "ok")>>
        /\ resp[p].ok /\ ~resp[p].removed
        /\ sites[loc[p].site] = "none"
        /\ containers[ServiceName(loc[p].site)].status = "running"

\* C14: an error text that comes from an external command (new-site,
\* install-app, drop-site) and is returned to the API caller is at most 300
\* characters long.
C14_CommandErrorsCapped ==
    \A p \in Procs :
        (pc[p] = "done" /\ loc[p].via = "api"
         /\ resp[p].error \in {"new-site failed", "install-app failed", "drop-site failed"})
            => resp[p].errlen <= ErrorCap

CreateSucceeded(p) ==
    pc[p] = "done" /\ loc[p].op = "create" /\ loc[p].via = "api" /\ resp[p].ok

Earlier(p) == reported[loc[p].site]

\* C15 as stated: every successful create of an identifier through the API
\* reports the port the first successful create of that identifier reported.
C15_PortStableAcrossCycles ==
    \A p \in Procs :
        (CreateSucceeded(p) /\ Earlier(p).first # NoPort)
            => resp[p].port = Earlier(p).first

\* C15 amended: every successful create that passes no port reports the port
\* resolved from the configuration, the same one in every create, delete and
\* recreate of the identifier; a create that passes a port reports that port.
C15_ResolvedPortStableAcrossCycles ==
    \A p \in Procs :
        CreateSucceeded(p)
            => IF loc[p].port_arg = NoPort
               THEN /\ resp[p].port = Some(ResolveTenantPort(Config, loc[p].site))
                    /\ Earlier(p).resolved # NoPort => resp[p].port = Earlier(p).resolved
               ELSE resp[p].port = loc[p].port_arg

C15_Witness ==
    \E p \in Procs :
        /\ CreateSucceeded(p) /\ loc[p].port_arg = NoPort
        /\ Earlier(p).first = Some(8081)
        /\ Earlier(p).resolved = resp[p].port

\* C16: the port of every successful tenant record returned by a create is an
\* integer in 1..65535.
C16_ReportedPortInRange ==
    \A p \in Procs :
        (pc[p] = "done" /\ loc[p].op = "create" /\ resp[p].ok)
            => /\ resp[p].port # NoPort
               /\ resp[p].port[1] >= MinPort
               /\ resp[p].port[1] <= MaxPort

\* The port a variable's text stands for: its number when it is a numeral,
\* the given default when it is unset or malformed.
PortOr(val, default) == IF val.t = "num" THEN val.n ELSE default

\* The entries of the override table that bind site to a port: named site,
\* and not bound to port 0.
Bindings(cfg, site) ==
    {i \in 1..Len(cfg.TENANT_PORTS) :
        /\ cfg.TENANT_PORTS[i].colon
        /\ cfg.TENANT_PORTS[i].site = site
        /\ PortOr(cfg.TENANT_PORTS[i].val, PortOr(cfg.HTTP_PUBLISH_PORT, DefaultHttpPort)) # 0}

\* The port the precedence rule gives.
ExpectedPort(cfg, site) ==
    LET global == PortOr(cfg.HTTP_PUBLISH_PORT, DefaultHttpPort)
        bound == Bindings(cfg, site)
        first == CHOOSE i \in bound : \A j \in bound : i <= j
    IN  CASE site = cfg.FRAPPE_SITE_NAME_HEADER -> global
          [] site # cfg.FRAPPE_SITE_NAME_HEADER /\ site = cfg.TENANT2_SITE_NAME
                -> PortOr(cfg.TENANT2_HTTP_PORT, 8081)
          [] site \notin {cfg.FRAPPE_SITE_NAME_HEADER, cfg.TENANT2_SITE_NAME}
             /\ site = cfg.TENANT3_SITE_NAME
                -> PortOr(cfg.TENANT3_HTTP_PORT, 8082)
          [] OTHER -> IF bound = {} THEN global
                      ELSE PortOr(cfg.TENANT_PORTS[first].val, global)

\* C17: for every identifier and every environment, malformed values included,
\* resolve_tenant_port returns a port (never an error), namely the first-tenant
\* default, else the second-tenant binding, else the third-tenant binding, else
\* the first binding of the override table, else the global default, a
\* malformed value counting as its default; a second call returns the same port.
C17_ResolveTotalDeterministic ==
    fn.name = "resolve_tenant_port"
        => /\ fn.out # NoPort => fn.out = Some(ExpectedPort(fn.cfg, fn.site))
           /\ fn.again # NoPort => fn.again = fn.out

C17_Witness ==
    /\ fn.name = "resolve_tenant_port"
    /\ fn.site = SiteADotB
    /\ fn.cfg.TENANT2_SITE_NAME = SiteADotB /\ fn.cfg.TENANT2_HTTP_PORT = EnvBad
    /\ fn.cfg.TENANT3_SITE_NAME = SiteADotB /\ fn.cfg.TENANT3_HTTP_PORT = EnvNum(8090)
    /\ fn.out = Some(8081)
    /\ fn.again = Some(8081)

\* A string of length at least 2 that starts and ends with an alphanumeric
\* character and has only alphanumerics, hyphens and periods in between.
IdentifierShape(s) ==
    /\ Len(s) >= 2
    /\ Head(s) \in Alnum
    /\ s[Len(s)] \in Alnum
    /\ \A i \in 1..Len(s) : (1 < i /\ i < Len(s)) => s[i] \in Alnum \cup {"-", "."}

\* C18: the check of create and the check of delete accept a string exactly
\* when it has the identifier shape, and reject every other string with
\* "Invalid site name".
C18_ValidatorExact ==
    (fn.name = "validate" /\ fn.create # "?")
        => LET expected == IF IdentifierShape(fn.s) THEN "" ELSE "Invalid site name"
           IN  fn.create = expected /\ fn.delete = expected

PassedPortCheck(p) ==
    /\ loc[p].op = "attach"
    /\ pc[p] = "fe_run"
    /\ \E i \in 1..Len(calls[p]) : calls[p][i] = Call("docker.list", "ok")

\* C19: the port-in-use check is a step of its own that creates and reserves
\* nothing, so a second caller's check can run between a caller's check and its
\* creation of the container.
C19_PortCheckNotAtomicWithCreation ==
    [][\A p \in Procs :
         (pc[p] = "fe_portscan" /\ pc'[p] # "fe_portscan")
            => /\ containers' = containers
               /\ pc'[p] \in {"fe_existing", "done"}
               /\ pc'[p] = "done" => ~resp'[p].ok]_vars

\* Two callers with different identifiers have both passed the check for the
\* same free port and are both about to request the container.
C19_Witness ==
    /\ PassedPortCheck(1) /\ PassedPortCheck(2)
    /\ loc[1].site # loc[2].site
    /\ ValidName(loc[1].site) /\ ValidName(loc[2].site)
    /\ loc[1].port = loc[2].port
    /\ ~PortPublished(loc[1].port[1])

\* No container of another service name publishes the port p asks for.
PortFreeOfOthers(p) ==
    \A c \in SvcNames \ {ServiceName(loc[p].site)} :
        containers[c].status = "absent" \/ containers[c].port # loc[p].port[1]

\* C20: an attach for an identifier whose own container exists but is not
\* running, with the backend and network in place, the runtime answering every
\* call without error and no other container holding the port, does not end
\* before that container is replaced: it ends ok with the service name's one
\* container running.
C20_StoppedFrontendReplaced ==
    [][\A p \in Procs :
         LET svc == ServiceName(loc[p].site) IN
         (/\ loc[p].op = "attach" /\ ValidName(loc[p].site)
          /\ pc[p] # "done" /\ pc'[p] = "done"
          /\ containers[svc].status = "exited"
          /\ containers[svc].site = loc[p].site
          /\ PortFreeOfOthers(p)
          /\ HasCall(p, "docker.list")'
          /\ NoRuntimeError(p)')
         => /\ resp'[p].ok
            /\ containers'[svc].status = "running"
            /\ containers'[svc].id = resp'[p].cid]_vars

Made(p, call) == \E i \in 1..Len(calls[p]) : calls[p][i] = call

\* C21: an attach requests the creation of a container only after its lookup
\* of the backend container answered with a container in the running state;
\* after a lookup that found none or that failed, nothing is created.
C21_NoFrontendWithoutBackend ==
    \A p \in Procs :
        (ValidName(loc[p].site) /\ HasCall(p, "docker.run"))
            => Made(p, Call("docker.find backend", "ok"))

NoCredentials(r) ==
    ~r.creds /\ r.api_key = "" /\ r.api_secret = "" /\ r.token = <<>>

\* C22: the record of a create whose frontend attach failed carries no
\* credentials, whether or not the key pair was issued in that call; a record
\* carries a key or a secret only when it is the ok record of the create whose
\* own key command issued them, so the pair of a failed attach reaches no caller.
C22_FailedAttachReturnsNoCredentials ==
    \A p \in Procs :
        /\ (pc[p] = "done" /\ loc[p].op = "create" /\ HasCall(p, "docker.from_env")
             /\ ~resp[p].ok)
                => NoCredentials(resp[p])
        /\ (resp[p].api_key # "" \/ resp[p].api_secret # "" \/ resp[p].token # <<>>)
                => /\ pc[p] = "done" /\ loc[p].op = "create" /\ resp[p].ok
                   /\ Made(p, Call("execute", "ok"))

C22_Witness ==
    \E p \in Procs :
        /\ pc[p] = "done" /\ loc[p].op = "create" /\ loc[p].via = "api"
        /\ Made(p, Call("execute", "ok"))
        /\ loc[p].api_key # "" /\ loc[p].api_secret # ""
        /\ apiKeys[loc[p].site] = 1
        /\ Made(p, Call("docker.run", "fail"))
        /\ resp[p].error = "Tenant created but frontend failed"
        /\ NoCredentials(resp[p])

\* A site left by a create that ended at install-app: new-site has made it and
\* no caller is on its way to install the application on it.
HalfProvisioned(s) ==
    /\ sites[s] = "created"
    /\ \A p \in Procs : ~(pc[p] = "install_app" /\ loc[p].site = s)

\* C23: a half-provisioned site is listed as a tenant; a create for it ends at
\* new-site with an error; and it stays as it is, never becoming installed,
\* until a drop-site for it succeeds.
C23_HalfProvisionedSiteStays ==
    /\ [](\A p \in Procs :
            (pc[p] = "done" /\ loc[p].op = "list" /\ resp[p].ok)
                => \A s \in Idents : HalfProvisioned(s) => s \in resp[p].tenants)
    /\ [][\A s \in Idents :
            HalfProvisioned(s)
            => /\ sites'[s] # "installed"
               /\ sites'[s] # "created"
                    => \E p \in Procs : /\ pc[p] = "drop_site" /\ loc[p].site = s
                                         /\ Made(p, Call("drop-site", "ok"))'
               /\ \A p \in Procs :
                    (pc[p] = "new_site" /\ loc[p].site = s /\ pc'[p] # "new_site")
                        => /\ pc'[p] = "done" /\ ~resp'[p].ok
                           /\ resp'[p].error = "new-site failed"
                           /\ calls'[p] = <<Call("new-site", "fail")>>]_vars

C23_Witness ==
    \E p \in Procs, s \in Idents :
        /\ pc[p] = "done" /\ loc[p].op = "list" /\ resp[p].ok
        /\ ValidName(s) /\ HalfProvisioned(s)
        /\ s \in resp[p].tenants

RuntimeCmds == DockerCmds \cup {"docker.stop"}

\* The operations that ask for no frontend work: a create without
\* create_frontend, a delete with remove_frontend=false, a list.
NoFrontendAsked(p) ==
    \/ loc[p].op = "create" /\ ~loc[p].fe
    \/ loc[p].op = "delete" /\ ~loc[p].rm_fe
    \/ loc[p].op = "list"

\* C24: a create without a frontend request, a delete with
\* remove_frontend=false and a list make no container-runtime call, and none
\* of their steps changes a container.
C24_NoFrontendAskedNoRuntimeCall ==
    /\ [](\A p \in Procs :
            NoFrontendAsked(p) => Cmds(p) \cap RuntimeCmds = {})
    /\ [][\A p \in Procs :
            (NoFrontendAsked(p) /\ pc'[p] # pc[p]) => containers' = containers]_vars

C24_Witness ==
    \E p \in Procs :
        /\ pc[p] = "done" /\ loc[p].op = "delete" /\ ~loc[p].rm_fe
        /\ resp[p].ok /\ Made(p, Call("drop-site", "ok"))
        /\ sites[loc[p].site] = "none"
        /\ containers[ServiceName(loc[p].site)].status = "running"

\* The key require_auth compares for a request: the key header when it is not
\* empty, else the bearer token, else nothing.
KeyCompared(xkey, authz) ==
    IF xkey # "" THEN xkey
    ELSE IF authz.scheme = "Bearer" THEN authz.cred ELSE ""

\* C25: with an empty secret no request is authorized; with a non-empty key
\* header the answer is the one the request gets without its Authorization
\* header; and a request is authorized only if the key compared equals the
\* non-empty secret.
C25_AuthorizationFailsClosed ==
    fn.name = "require_auth" =>
        /\ fn.out # <<>> =>
              /\ fn.secret = "" => fn.out = <<FALSE>>
              /\ fn.xkey # "" => fn.out = <<fn.secret # "" /\ fn.xkey = fn.secret>>
              /\ fn.out = <<TRUE>> <=> /\ fn.secret # ""
                                       /\ KeyCompared(fn.xkey, fn.authz) = fn.secret
        /\ (fn.out # <<>> /\ fn.bare # <<>> /\ fn.xkey # "") => fn.out = fn.bare

C25_Witness ==
    /\ fn.name = "require_auth"
    /\ fn.secret = "k1" /\ fn.xkey = "k2" /\ fn.authz = Bearer("k1")
    /\ fn.out = <<FALSE>> /\ fn.bare = <<FALSE>>
====
